---- MODULE Spec2Model ----
(***************************************************************************)
(* Employee management server (server.js + config/database.js):            *)
(* the auth gate, the login route with its rate limiter, and the employee  *)
(* CRUD routes over the employees table.                                   *)
(*                                                                         *)
(* Strings are sequences of one-character strings, so that trim, lower-    *)
(* casing and length checks are computed and not assumed.  A request body  *)
(* is a function from the keys the JSON object carries to their values; a  *)
(* key that is not in its domain reads as the JS value undefined.          *)
(***************************************************************************)
EXTENDS Integers, Sequences, FiniteSets, TLC

\* ------------------------------------------------------------------ bounds
MaxReq == 2         \* concurrent API requests handled in one behaviour
MaxLogins == 7      \* login attempts in one behaviour of the rate limiter
MaxSessions == 2    \* login attempts in one behaviour of token expiry
MaxBoots == 2       \* starts of the server process in one behaviour
MaxOps == 12        \* storage operations issued on the pool in one behaviour
MaxPhoneLen == 3    \* length of the phone values typed into the form
MaxToasts == 3      \* calls of showToast in one behaviour

\* ------------------------------------------------------- program constants
NameMax == 50
TitleMax == 100
AddressMax == 200
ExpiresInSec == 86400
RateMax == 5
WindowMs == 15 * 60 * 1000
JWT_SECRET == "fallback-secret-key-change-immediately"
WaitForConnections == TRUE
ConnectionLimit == 10
QueueLimit == 0
ToastMs == 5000

\* ----------------------------------------------------------------- strings
UNDEF == <<"undefined">>

Digits == {"0", "1", "2", "3", "4", "5", "6", "7", "8", "9"}

DigitVal(c) ==
  CASE c = "0" -> 0 [] c = "1" -> 1 [] c = "2" -> 2 [] c = "3" -> 3
    [] c = "4" -> 4 [] c = "5" -> 5 [] c = "6" -> 6 [] c = "7" -> 7
    [] c = "8" -> 8 [] c = "9" -> 9 [] OTHER -> 0

SetMin(S) == CHOOSE x \in S : \A y \in S : x <= y
SetMax(S) == CHOOSE x \in S : \A y \in S : x >= y

Rep(c, n) == [i \in 1..n |-> c]

\* String.prototype.trim as express-validator's trim() applies it
Trim(s) ==
  LET idx == {i \in 1..Len(s) : s[i] # " "}
  IN  IF idx = {} THEN <<>> ELSE SubSeq(s, SetMin(idx), SetMax(idx))

LowerChar(c) ==
  CASE c = "A" -> "a" [] c = "B" -> "b" [] c = "C" -> "c" [] c = "O" -> "o"
    [] c = "X" -> "x" [] OTHER -> c

ToLower(s) == [i \in 1..Len(s) |-> LowerChar(s[i])]

\* body[k], undefined when the JSON object has no such key
Field(b, k) == IF k \in DOMAIN b THEN b[k] ELSE UNDEF

\* express-validator turns the value into a string before validating it
AsString(v) == IF v = UNDEF THEN <<>> ELSE v

\* ------------------------------------------------------ employeeValidation
IsLength(s, lo, hi) == Len(s) >= lo /\ Len(s) <= hi

\* isEmail: one "@", a non-empty local part, a dotted domain, no blanks
IsEmail(s) ==
  LET ats == {i \in 1..Len(s) : s[i] = "@"}
  IN  /\ Cardinality(ats) = 1
      /\ \A i \in 1..Len(s) : s[i] # " "
      /\ LET a == SetMin(ats)
             dots == {i \in (a + 1)..Len(s) : s[i] = "."}
         IN  /\ a > 1
             /\ dots # {}
             /\ \A d \in dots : d > a + 1 /\ d < Len(s) /\ (d + 1) \notin dots

NormalizeEmailKeep(s) == s

\* normalizeEmail (all_lowercase: true)
NormalizeEmail(s) == ToLower(s)

\* isFloat({ min: 0 })
IsFloatMin0(s) ==
  LET dots == {i \in 1..Len(s) : s[i] = "."}
      digs == {i \in 1..Len(s) : s[i] \in Digits}
  IN  /\ digs # {}
      /\ Cardinality(dots) <= 1
      /\ \A i \in 1..Len(s) : s[i] \in Digits \union {"."}

DaysIn(y, m) ==
  IF m \in {4, 6, 9, 11} THEN 30
  ELSE IF m = 2
       THEN (IF (y % 4 = 0 /\ y % 100 # 0) \/ y % 400 = 0 THEN 29 ELSE 28)
       ELSE 31

\* isDate(): YYYY/MM/DD or YYYY-MM-DD naming a day of the calendar
IsDate(s) ==
  /\ Len(s) = 10
  /\ s[5] \in {"/", "-"} /\ s[8] \in {"/", "-"}
  /\ \A i \in {1, 2, 3, 4, 6, 7, 9, 10} : s[i] \in Digits
  /\ LET y == 1000 * DigitVal(s[1]) + 100 * DigitVal(s[2])
                + 10 * DigitVal(s[3]) + DigitVal(s[4])
         m == 10 * DigitVal(s[6]) + DigitVal(s[7])
         d == 10 * DigitVal(s[9]) + DigitVal(s[10])
     IN  m >= 1 /\ m <= 12 /\ d >= 1 /\ d <= DaysIn(y, m)

\* isMobilePhone(): an optional "+" and then seven to fifteen digits
IsMobilePhone(s) ==
  LET digs == {i \in 1..Len(s) : s[i] \in Digits}
  IN  /\ Cardinality(digs) >= 7 /\ Cardinality(digs) <= 15
      /\ \A i \in 1..Len(s) : s[i] \in Digits \/ (i = 1 /\ s[i] = "+")

FieldOrder ==
  <<"first_name", "last_name", "email", "position", "department",
    "salary", "hire_date", "phone", "address">>

TrimmedFields == {"first_name", "last_name", "position", "department"}

\* one validation chain of employeeValidation: TRUE when the field passes
FieldOk(b, k) ==
  LET v == AsString(Field(b, k))
  IN  CASE k \in {"first_name", "last_name"} -> IsLength(Trim(v), 1, NameMax)
        [] k \in {"position", "department"} -> IsLength(Trim(v), 1, TitleMax)
        [] k = "email" -> IsEmail(v)
        [] k = "salary" -> IsFloatMin0(v)
        [] k = "hire_date" -> IsDate(v)
        [] k = "phone" -> Field(b, k) = UNDEF \/ IsMobilePhone(v)
        [] k = "address" -> Field(b, k) = UNDEF \/ IsLength(v, 0, AddressMax)

employeeValidationFirst(b) ==
  LET errs == SelectSeq(FieldOrder, LAMBDA k : ~FieldOk(b, k))
  IN  IF errs = <<>> THEN <<>> ELSE <<errs[1]>>

\* the fields whose chains have no optional()
Required == {k \in {FieldOrder[i] : i \in 1..Len(FieldOrder)} : k \notin {"phone", "address"}}

\* validationResult(req).array(): the failing fields, in chain order
employeeValidation(b) ==
  SelectSeq(FieldOrder, LAMBDA k : ~FieldOk(b, k))

\* req.body after the sanitizers of the chains have run
Sanitize(b) ==
  [k \in DOMAIN b |->
     CASE k \in TrimmedFields -> Trim(b[k])
       [] k = "email" -> NormalizeEmail(b[k])
       [] OTHER -> b[k]]

\* ------------------------------------------------------------------- state
VARIABLES
  now,        \* Date.now(), in milliseconds
  employees,  \* the rows of the employees table
  nextId,     \* the table's AUTO_INCREMENT counter
  admins,     \* the rows of the admins table
  boot,       \* the server process: its place in initializeApp, and which start this is
  pool,       \* the connection pool: its connections, its queue, the operations issued
  toast,      \* the page: toastId, activeToasts, the toast elements and their timers
  req,        \* the API requests being handled, by slot
  hits,       \* authLimiter's store: hit count by caller origin
  resetTime,  \* authLimiter's store: end of the current window by origin
  attempts,   \* history: times of the last login attempts by origin
  admitted,   \* history: times of the last admitted login attempts by origin
  failResp,   \* history: the 401 responses seen, by kind of failure
  lastLogin,  \* history: the last login attempt and its response
  held,       \* the client's token (of its last successful login) and its time of issue
  lastVerify, \* history: the last call of /api/auth/verify and its response
  nLogins     \* history: number of login attempts

vars ==
  <<now, employees, nextId, admins, pool, toast, boot, req, hits, resetTime, attempts, admitted,
    failResp, lastLogin, held, lastVerify, nLogins>>

loginVars ==
  <<hits, resetTime, attempts, admitted, failResp, lastLogin, held,
    lastVerify, nLogins>>

\* ------------------------------------------------------------ tokens, gate
\* An authorization header is a sequence of atoms: the scheme word, blanks and
\* credentials.  A credential is either a JWT (its claims and the key that
\* signed it) or text that is no JWT.
Atom(kind) ==
  [kind |-> kind, id |-> 0, username |-> <<>>, iat |-> 0, exp |-> 0, key |-> ""]

SP == Atom("sp")
BEARER == Atom("scheme")
GARBAGE == Atom("text")

\* jwt.sign(payload, secret, { expiresIn: '24h' }) at clock nowMs
JwtSign(id, username, secret, nowMs) ==
  [kind |-> "jwt", id |-> id, username |-> username, iat |-> nowMs \div 1000,
   exp |-> (nowMs \div 1000) + ExpiresInSec, key |-> secret]

JwtVerifyInclusive(token, secret, nowMs) ==
  /\ Len(token) = 1
  /\ token[1].kind = "jwt"
  /\ token[1].key = secret
  /\ (nowMs \div 1000) <= token[1].exp

\* jwt.verify(token, secret) at clock nowMs: TRUE when it yields no error
JwtVerify(token, secret, nowMs) ==
  /\ Len(token) = 1
  /\ token[1].kind = "jwt"
  /\ token[1].key = secret
  /\ (nowMs \div 1000) < token[1].exp

\* String.prototype.split(' ')
RECURSIVE Split(_)
Split(h) ==
  LET sps == {i \in 1..Len(h) : h[i] = SP}
  IN  IF sps = {} THEN <<h>>
      ELSE <<SubSeq(h, 1, SetMin(sps) - 1)>>
             \o Split(SubSeq(h, SetMin(sps) + 1, Len(h)))

ExtractTokenFirst(headers) ==
  IF "authorization" \notin DOMAIN headers THEN <<>>
  ELSE Split(headers["authorization"])[1]

\* authHeader && authHeader.split(' ')[1]; the empty string stands for every
\* falsy outcome (no header, no second part, an empty second part)
ExtractToken(headers) ==
  IF "authorization" \notin DOMAIN headers THEN <<>>
  ELSE LET parts == Split(headers["authorization"])
       IN  IF Len(parts) >= 2 THEN parts[2] ELSE <<>>

NoUser == [id |-> 0, username |-> <<>>]

authenticateTokenBypass(headers, nowMs) ==
  LET token == ExtractToken(headers)
  IN  IF token # <<>> /\ token[1].kind = "jwt"
      THEN [ok |-> TRUE, status |-> 200, error |-> "",
            user |-> [id |-> token[1].id, username |-> token[1].username]]
      ELSE [ok |-> TRUE, status |-> 200, error |-> "", user |-> NoUser]

authenticateTokenChecksAdmin(headers, nowMs) ==
  LET token == ExtractToken(headers)
  IN  IF token = <<>>
      THEN [ok |-> FALSE, status |-> 401, error |-> "Access token required",
            user |-> NoUser]
      ELSE IF ~JwtVerify(token, JWT_SECRET, nowMs)
                \/ \A a \in admins : a.id # token[1].id
      THEN [ok |-> FALSE, status |-> 403, error |-> "Invalid or expired token",
            user |-> NoUser]
      ELSE [ok |-> TRUE, status |-> 200, error |-> "",
            user |-> [id |-> token[1].id, username |-> token[1].username]]

\* the middleware: either next() with req.user set, or a 401/403 response
authenticateToken(headers, nowMs) ==
  LET token == ExtractToken(headers)
  IN  IF token = <<>>
      THEN [ok |-> FALSE, status |-> 401, error |-> "Access token required",
            user |-> NoUser]
      ELSE IF ~JwtVerify(token, JWT_SECRET, nowMs)
      THEN [ok |-> FALSE, status |-> 403, error |-> "Invalid or expired token",
            user |-> NoUser]
      ELSE [ok |-> TRUE, status |-> 200, error |-> "",
            user |-> [id |-> token[1].id, username |-> token[1].username]]

\* ----------------------------------------------------------------- storage
\* employees: the rows of the table; email is UNIQUE, id is AUTO_INCREMENT
Columns == FieldOrder

\* the placeholders' values, in the order of the statement
BindParams(b) == [i \in 1..Len(Columns) |-> Field(b, Columns[i])]

\* mysql2's execute refuses a bind parameter that is undefined
HasUndefined(params) == \E i \in 1..Len(params) : params[i] = UNDEF

MakeRow(id, b, created, updated) ==
  [id |-> id, first_name |-> b["first_name"], last_name |-> b["last_name"],
   email |-> b["email"], position |-> b["position"],
   department |-> b["department"], salary |-> b["salary"],
   hire_date |-> b["hire_date"], phone |-> b["phone"],
   address |-> b["address"], created_at |-> created, updated_at |-> updated]

SameValues(row, b) == \A k \in {c \in DOMAIN row : c \in DOMAIN b /\ c # "id"} : row[k] = b[k]

\* SELECT * FROM employees WHERE email = ?
SelectByEmail(rows, email) == {e \in rows : e.email = email}

\* SELECT * FROM employees WHERE id = ?
SelectById(rows, id) == {e \in rows : e.id = id}

SelectOtherByEmailSelf(rows, email, id) == {e \in rows : e.email = email /\ e.id = id}

\* SELECT * FROM employees WHERE email = ? AND id != ?
SelectOtherByEmail(rows, email, id) == {e \in rows : e.email = email /\ e.id # id}

\* the UNIQUE index on email: TRUE when writing email into row id is refused
UniqueViolationOff(rows, email, id) == FALSE

UniqueViolation(rows, email, id) ==
  \E e \in rows : e.email = email /\ e.id # id

\* the catch block of the create and update handlers
WriteErrorStatusAll500(code) == 500

WriteErrorStatus(code) == IF code = "ER_DUP_ENTRY" THEN 409 ELSE 500

\* ------------------------------------------------------------------ inputs
Slots == 1..MaxReq
IdParams == {1, 2}
Ops == {"verify", "list", "get", "create", "update", "delete"}

\* the clock of the API behaviours: a day and a minute after the epoch
ApiNowMs == (ExpiresInSec + 60) * 1000

AdminName == <<"a", "d", "m", "i", "n">>
AdminPassword == <<"a", "d", "m", "i", "n", "1", "2", "3">>

GoodToken == JwtSign(1, AdminName, JWT_SECRET, ApiNowMs - 60000)
ExpiredToken == JwtSign(1, AdminName, JWT_SECRET, 0)
ForgedToken == JwtSign(1, AdminName, "another-key", ApiNowMs - 60000)

NoHeaders == <<>>
Authorization(h) == [authorization |-> h]

GoodHeaders == Authorization(<<BEARER, SP, GoodToken>>)

Headers ==
  {NoHeaders, GoodHeaders,
   Authorization(<<BEARER>>),
   Authorization(<<GoodToken>>),
   Authorization(<<ExpiredToken>>),
   Authorization(<<BEARER, SP, ExpiredToken>>),
   Authorization(<<BEARER, SP, ForgedToken>>),
   Authorization(<<BEARER, SP, GARBAGE>>)}

EmailA == <<"a", "@", "x", ".", "c", "o">>
EmailAUpper == <<"A", "@", "X", ".", "C", "O">>
EmailB == <<"b", "@", "x", ".", "c", "o">>
EmailC == <<"c", "@", "x", ".", "c", "o">>

BaseBody ==
  [first_name |-> <<"A", "n", "n">>, last_name |-> <<"L", "e", "e">>,
   email |-> EmailA, position |-> <<"d", "e", "v">>,
   department |-> <<"I", "T">>, salary |-> <<"5", "0">>,
   hire_date |-> <<"2", "0", "2", "4", "-", "0", "2", "-", "2", "9">>,
   phone |-> <<"2", "0", "2", "5", "5", "5", "0", "1", "2", "3">>,
   address |-> <<"H", "Q">>]

Without(b, k) == [x \in (DOMAIN b) \ {k} |-> b[x]]

BodyB == [BaseBody EXCEPT !.email = EmailB]

\* a body with two required fields invalid: one empty, one over-long
InvalidBody ==
  [BaseBody EXCEPT !.first_name = <<>>, !.last_name = Rep("x", NameMax + 1)]

Bodies ==
  {BaseBody,
   [BaseBody EXCEPT !.email = EmailAUpper,
                    !.first_name = <<" ", "A", "n", "n", " ">>],
   BodyB,
   ("id" :> 1) @@ BodyB,
   Without(BodyB, "phone"),
   InvalidBody}

Request(op, id, b) == [op |-> op, id |-> id, body |-> b]

WriteHeaders == {GoodHeaders, NoHeaders}

WriteRequests ==
  {Request("create", 0, b) : b \in Bodies}
    \union {Request("update", id, b) : id \in IdParams, b \in {BaseBody, BodyB}}
    \union {Request("delete", id, <<>>) : id \in IdParams}

AnyRequests ==
  {Request(op, 1, BodyB) : op \in Ops} \union {Request("update", 1, InvalidBody)}

\* rows that earlier runs of the server left in the table
OldRow(id, email) == MakeRow(id, [BaseBody EXCEPT !.email = email], 10 * id, 10 * id)

\* a row inserted within the same second as row 1
TiedRow(id, email) == [OldRow(id, email) EXCEPT !.created_at = 10, !.updated_at = 10]

InitTables ==
  {{}, {OldRow(1, EmailA)}, {OldRow(1, EmailA), OldRow(2, EmailC)},
   {OldRow(1, EmailA), TiedRow(2, EmailC)}}

\* bcrypt.hashSync and bcrypt.compareSync
Hash(password) == [alg |-> "bcrypt", of |-> password]
CompareSync(password, digest) == digest = Hash(password)

\* initializeApp: the default admin
DefaultAdmin == [id |-> 1, username |-> AdminName, password |-> Hash(AdminPassword)]

\* the pool as createPool returns it: no connection made yet, no operation
IdlePool == [all |-> 0, free |-> 0, queue |-> <<>>, op |-> <<>>]

\* the page before any showToast
NoToasts ==
  [toastId |-> 0, activeToasts |-> {}, body |-> {}, timers |-> {},
   last |-> [type |-> "", message |-> ""]]

\* the process after initializeApp has run and app.listen was called
Listening == [pc |-> "listening", n |-> 1, err |-> FALSE]

Idle ==
  [pc |-> "idle", op |-> "", hdr |-> NoHeaders, id |-> 0, body |-> <<>>,
   status |-> 0, msg |-> "", data |-> <<>>, ops |-> 0, dup |-> FALSE,
   pre |-> FALSE, applied |-> FALSE, newId |-> 0]

Origins == {"ip1", "ip2"}

NoToken == Atom("none")

NoLogin ==
  [origin |-> "", username |-> <<>>, password |-> <<>>, at |-> 0, status |-> 0,
   msg |-> "", token |-> NoToken]

NoHeld == [token |-> NoToken, at |-> 0]

NoVerify == [token |-> NoToken, issuedAt |-> 0, at |-> 0, status |-> 0]

InitLoginVars ==
  /\ hits = [o \in Origins |-> 0]
  /\ resetTime = [o \in Origins |-> 0]
  /\ attempts = [o \in Origins |-> <<>>]
  /\ admitted = [o \in Origins |-> <<>>]
  /\ failResp = [k \in {"wrong_password", "no_user"} |-> {}]
  /\ lastLogin = NoLogin
  /\ held = NoHeld
  /\ lastVerify = NoVerify
  /\ nLogins = 0

Init ==
  /\ now = ApiNowMs
  /\ employees \in InitTables
  /\ nextId = Cardinality(employees) + 1
  /\ admins = {DefaultAdmin}
  /\ boot = Listening
  /\ pool = IdlePool
  /\ toast = NoToasts
  /\ req = [r \in Slots |-> Idle]
  /\ InitLoginVars

\* ------------------------------------------------------------ API requests
Respond(q, status, msg, data) ==
  [q EXCEPT !.pc = "done", !.status = status, !.msg = msg, !.data = data]

\* { id: result.insertId, ...req.body }
SpreadAfterId(insertId, b) ==
  [k \in {"id"} \union DOMAIN b |-> IF k \in DOMAIN b THEN b[k] ELSE insertId]

HandleUnvalidated(q0, op, h, id, b) ==
  LET g == authenticateToken(h, now)
      q == [q0 EXCEPT !.op = op, !.hdr = h]
  IN  IF ~g.ok THEN Respond(q, g.status, g.error, <<>>)
      ELSE IF op = "verify" THEN Respond(q, 200, "", g.user)
      ELSE IF op = "list" THEN [q EXCEPT !.pc = "select"]
      ELSE IF op \in {"get", "delete"}
           THEN [q EXCEPT !.pc = "select", !.id = id]
      ELSE IF op = "create"
           THEN [q EXCEPT !.pc = "precheck", !.body = b]
      ELSE [q EXCEPT !.pc = "select", !.id = id, !.body = b]

\* the route's middleware up to the handler's first await: the gate, then
\* for create and update the validation chains
Handle(q0, op, h, id, b) ==
  LET g == authenticateToken(h, now)
      q == [q0 EXCEPT !.op = op, !.hdr = h]
      errs == employeeValidation(b)
  IN  IF ~g.ok THEN Respond(q, g.status, g.error, <<>>)
      ELSE IF op = "verify" THEN Respond(q, 200, "", g.user)
      ELSE IF op = "list" THEN [q EXCEPT !.pc = "select"]
      ELSE IF op \in {"get", "delete"}
           THEN [q EXCEPT !.pc = "select", !.id = id]
      ELSE IF errs # <<>>
           THEN Respond([q EXCEPT !.id = id, !.body = b], 400, "Validation failed", errs)
      ELSE IF op = "create"
           THEN [q EXCEPT !.pc = "precheck", !.body = b]
      ELSE [q EXCEPT !.pc = "select", !.id = id, !.body = b]

\* a request arrives in slot r: its headers from hs, the rest of it from rs
ReceiveFrom(r, hs, rs) ==
  /\ req[r].pc = "idle"
  /\ \A s \in Slots : s < r => req[s].pc # "idle"
  /\ \E h \in hs, x \in rs :
       req' = [req EXCEPT ![r] = Handle(Idle, x.op, h, x.id, x.body)]
  /\ UNCHANGED <<now, employees, nextId, admins, pool, toast, boot, loginVars>>

\* writes race with writes
Receive(r) == ReceiveFrom(r, WriteHeaders, WriteRequests)

\* every endpoint behind every kind of authorization header
ReceiveAny(r) == ReceiveFrom(r, Headers, AnyRequests)

Issue(q) == [q EXCEPT !.ops = @ + 1]

NowSec == now \div 1000

\* ORDER BY created_at DESC: rows of equal created_at come in any order
Orderings(rows) ==
  {s \in [1..Cardinality(rows) -> rows] :
     /\ \A i, j \in DOMAIN s : i # j => s[i] # s[j]
     /\ \A i, j \in DOMAIN s : i < j => s[i].created_at >= s[j].created_at}

\* GET /api/employees
ListSelect(r) ==
  /\ req[r].pc = "select" /\ req[r].op = "list"
  /\ \E rows \in Orderings(employees) :
       req' = [req EXCEPT ![r] = Respond(Issue(@), 200, "", rows)]
  /\ UNCHANGED <<now, employees, nextId, admins, pool, toast, boot, loginVars>>

\* GET /api/employees/:id
GetSelect(r) ==
  /\ req[r].pc = "select" /\ req[r].op = "get"
  /\ LET rows == SelectById(employees, req[r].id)
     IN  req' = [req EXCEPT ![r] =
           IF rows = {} THEN Respond(Issue(@), 404, "Employee not found", <<>>)
           ELSE Respond(Issue(@), 200, "", CHOOSE e \in rows : TRUE)]
  /\ UNCHANGED <<now, employees, nextId, admins, pool, toast, boot, loginVars>>

\* POST /api/employees: the duplicate-email check
CreatePreCheck(r) ==
  /\ req[r].pc = "precheck"
  /\ LET b == Sanitize(req[r].body)
     IN  req' = [req EXCEPT ![r] =
           IF SelectByEmail(employees, b["email"]) # {}
           THEN Respond(Issue(@), 409, "Employee with this email already exists", <<>>)
           ELSE [Issue(@) EXCEPT !.pc = "insert", !.pre = TRUE]]
  /\ UNCHANGED <<now, employees, nextId, admins, pool, toast, boot, loginVars>>

CreateFailure(q, code) ==
  IF WriteErrorStatus(code) = 409
  THEN Respond(q, 409, "Employee with this email already exists", <<>>)
  ELSE Respond(q, 500, "Failed to create employee", <<>>)

\* POST /api/employees: the INSERT and the response
CreateInsert(r) ==
  /\ req[r].pc = "insert"
  /\ LET b == Sanitize(req[r].body)
         q == Issue(req[r])
     IN  IF HasUndefined(BindParams(b))
         THEN /\ req' = [req EXCEPT ![r] = CreateFailure(q, "TypeError")]
              /\ UNCHANGED <<employees, nextId>>
         ELSE IF UniqueViolation(employees, b["email"], 0)
         THEN /\ req' = [req EXCEPT ![r] =
                   CreateFailure([q EXCEPT !.dup = TRUE], "ER_DUP_ENTRY")]
              /\ UNCHANGED <<employees, nextId>>
         ELSE /\ employees' = employees \union {MakeRow(nextId, b, NowSec, NowSec)}
              /\ nextId' = nextId + 1
              /\ req' = [req EXCEPT ![r] =
                   Respond([q EXCEPT !.newId = nextId, !.applied = TRUE], 201,
                           "Employee created successfully",
                           SpreadAfterId(nextId, b))]
  /\ UNCHANGED <<now, admins, pool, toast, boot, loginVars>>

\* PUT /api/employees/:id: the existence check
UpdateExists(r) ==
  /\ req[r].pc = "select" /\ req[r].op = "update"
  /\ req' = [req EXCEPT ![r] =
       IF SelectById(employees, req[r].id) = {}
       THEN Respond(Issue(@), 404, "Employee not found", <<>>)
       ELSE [Issue(@) EXCEPT !.pc = "dupcheck"]]
  /\ UNCHANGED <<now, employees, nextId, admins, pool, toast, boot, loginVars>>

UpdateDupCheckLate(r) ==
  /\ req[r].pc = "dupcheck"
  /\ LET b == Sanitize(req[r].body)
         target == SelectById(employees, req[r].id)
     IN  /\ employees' = (employees \ target) \union {MakeRow(e.id, b, e.created_at, NowSec) : e \in target}
         /\ req' = [req EXCEPT ![r] =
               IF SelectOtherByEmail(employees, b["email"], req[r].id) # {}
               THEN Respond(Issue(@), 409,
                            "Another employee with this email already exists", <<>>)
               ELSE [Issue(@) EXCEPT !.pc = "write", !.pre = TRUE]]
  /\ UNCHANGED <<now, nextId, admins, pool, toast, boot, loginVars>>

\* PUT /api/employees/:id: the duplicate-email check
UpdateDupCheck(r) ==
  /\ req[r].pc = "dupcheck"
  /\ LET b == Sanitize(req[r].body)
     IN  req' = [req EXCEPT ![r] =
           IF SelectOtherByEmail(employees, b["email"], req[r].id) # {}
           THEN Respond(Issue(@), 409,
                        "Another employee with this email already exists", <<>>)
           ELSE [Issue(@) EXCEPT !.pc = "write", !.pre = TRUE]]
  /\ UNCHANGED <<now, employees, nextId, admins, pool, toast, boot, loginVars>>

UpdateFailure(q, code) ==
  IF WriteErrorStatus(code) = 409
  THEN Respond(q, 409, "Another employee with this email already exists", <<>>)
  ELSE Respond(q, 500, "Failed to update employee", <<>>)

UpdateRowRestamps(e, b) == MakeRow(e.id, b, NowSec, NowSec)

\* UPDATE employees SET ... WHERE id = ?; updated_at follows ON UPDATE
\* CURRENT_TIMESTAMP, which leaves it alone when no column changes
UpdateRow(e, b) ==
  IF SameValues(e, b) THEN e
  ELSE MakeRow(e.id, b, e.created_at, NowSec)

\* PUT /api/employees/:id: the UPDATE and the response
UpdateWrite(r) ==
  /\ req[r].pc = "write" /\ req[r].op = "update"
  /\ LET b == Sanitize(req[r].body)
         q == Issue(req[r])
         target == SelectById(employees, req[r].id)
     IN  IF HasUndefined(BindParams(b))
         THEN /\ req' = [req EXCEPT ![r] = UpdateFailure(q, "TypeError")]
              /\ UNCHANGED employees
         ELSE IF target # {} /\ UniqueViolation(employees, b["email"], req[r].id)
         THEN /\ req' = [req EXCEPT ![r] =
                   UpdateFailure([q EXCEPT !.dup = TRUE], "ER_DUP_ENTRY")]
              /\ UNCHANGED employees
         ELSE /\ employees' = (employees \ target)
                                \union {UpdateRow(e, b) : e \in target}
              /\ req' = [req EXCEPT ![r] =
                   Respond([q EXCEPT !.applied = TRUE], 200,
                           "Employee updated successfully", <<>>)]
  /\ UNCHANGED <<now, nextId, admins, pool, toast, boot, loginVars>>

\* DELETE /api/employees/:id: the existence check
DeleteExists(r) ==
  /\ req[r].pc = "select" /\ req[r].op = "delete"
  /\ req' = [req EXCEPT ![r] =
       IF SelectById(employees, req[r].id) = {}
       THEN Respond(Issue(@), 404, "Employee not found", <<>>)
       ELSE [Issue(@) EXCEPT !.pc = "write"]]
  /\ UNCHANGED <<now, employees, nextId, admins, pool, toast, boot, loginVars>>

DeleteWriteSoft(r) ==
  /\ req[r].pc = "write" /\ req[r].op = "delete"
  /\ req' = [req EXCEPT ![r] =
       Respond([Issue(@) EXCEPT !.applied = TRUE], 200,
               "Employee deleted successfully", <<>>)]
  /\ UNCHANGED <<now, employees, nextId, admins, pool, toast, boot, loginVars>>

\* DELETE /api/employees/:id: the DELETE and the response
DeleteWrite(r) ==
  /\ req[r].pc = "write" /\ req[r].op = "delete"
  /\ employees' = employees \ SelectById(employees, req[r].id)
  /\ req' = [req EXCEPT ![r] =
       Respond([Issue(@) EXCEPT !.applied = TRUE], 200,
               "Employee deleted successfully", <<>>)]
  /\ UNCHANGED <<now, nextId, admins, pool, toast, boot, loginVars>>

Next ==
  \E r \in Slots :
    \/ Receive(r)
    \/ CreatePreCheck(r)
    \/ CreateInsert(r)
    \/ UpdateExists(r)
    \/ UpdateDupCheck(r)
    \/ UpdateWrite(r)
    \/ DeleteExists(r)
    \/ DeleteWrite(r)

Spec == Init /\ [][Next]_vars

NextAny ==
  \E r \in Slots :
    \/ ReceiveAny(r)
    \/ ListSelect(r)
    \/ GetSelect(r)
    \/ CreatePreCheck(r)
    \/ CreateInsert(r)
    \/ UpdateExists(r)
    \/ UpdateDupCheck(r)
    \/ UpdateWrite(r)
    \/ DeleteExists(r)
    \/ DeleteWrite(r)

SpecGate == Init /\ [][NextAny]_vars

\* the same requests while the admins table either still has the row of the
\* token's administrator or has lost it
InitAdmin ==
  /\ now = ApiNowMs
  /\ employees = {OldRow(1, EmailA)}
  /\ nextId = 2
  /\ admins \in {{DefaultAdmin}, {}}
  /\ boot = Listening
  /\ pool = IdlePool
  /\ toast = NoToasts
  /\ req = [r \in Slots |-> Idle]
  /\ InitLoginVars

SpecAdmin == InitAdmin /\ [][NextAny]_vars

\* updates of a record that keep its email, next to requests that can get in
\* their way
OwnRequests ==
  {Request("update", 1, b) :
     b \in {BaseBody, [BaseBody EXCEPT !.email = EmailAUpper],
            Without(BaseBody, "phone")}}
    \union {Request("update", 2, BaseBody), Request("delete", 1, <<>>)}

InitOwn ==
  /\ now = ApiNowMs
  /\ employees = {OldRow(1, EmailA), OldRow(2, EmailC)}
  /\ nextId = 3
  /\ admins = {DefaultAdmin}
  /\ boot = Listening
  /\ pool = IdlePool
  /\ toast = NoToasts
  /\ req = [r \in Slots |-> Idle]
  /\ InitLoginVars

NextOwn ==
  \E r \in Slots :
    \/ ReceiveFrom(r, {GoodHeaders}, OwnRequests)
    \/ UpdateExists(r)
    \/ UpdateDupCheck(r)
    \/ UpdateWrite(r)
    \/ DeleteExists(r)
    \/ DeleteWrite(r)

SpecOwn == InitOwn /\ [][NextOwn]_vars

\* ------------------------------------------------------------------ payloads
\* the payload that has the keys of present, those of empty with the value ''
\* and the others with a valid value
FormBody(present, empty) ==
  [k \in present |-> IF k \in empty THEN <<>> ELSE BaseBody[k]]

\* every payload in which each of the fields is absent, empty or valid
FormBodies(fields) ==
  UNION {{FormBody(present, empty) : empty \in SUBSET present} :
           present \in SUBSET fields}

FormRequests(fields) ==
  {Request("create", 0, b) : b \in FormBodies(fields)}
    \union {Request("update", 1, b) : b \in FormBodies(fields)}

InitForm ==
  /\ now = ApiNowMs
  /\ employees = {OldRow(1, EmailC)}
  /\ nextId = 2
  /\ admins = {DefaultAdmin}
  /\ boot = Listening
  /\ pool = IdlePool
  /\ toast = NoToasts
  /\ req = [r \in Slots |-> Idle]
  /\ InitLoginVars

\* one request with a valid token and any of the payloads
ReceiveForm == ReceiveFrom(1, {GoodHeaders}, FormRequests(DOMAIN BaseBody))

NextForm ==
  \/ ReceiveForm
  \/ CreatePreCheck(1)
  \/ CreateInsert(1)
  \/ UpdateExists(1)
  \/ UpdateDupCheck(1)
  \/ UpdateWrite(1)

SpecForm == InitForm /\ [][NextForm]_vars

\* ------------------------------------------------------------- phone values
\* validateForm of the employee form, the phone field: an empty value is not
\* tested, any other must match /^[\d\s\-\+\(\)]+$/
validateFormPhone(s) ==
  s = <<>> \/ \A i \in 1..Len(s) : s[i] \in Digits \union {" ", "-", "+", "(", ")"}

\* the values of up to n characters typed into the field
PhoneInputs(n) ==
  UNION {[1..k -> {"2", "5", " ", "-", "+", "(", ")", "x"}] : k \in 1..n}

\* the form's payload: the fields as typed
PhoneRequests(n) ==
  {Request("create", 0, [BaseBody EXCEPT !.phone = p]) :
     p \in PhoneInputs(n) \union {BaseBody["phone"]}}

\* one create with a valid token, every other field valid
NextPhone ==
  \/ ReceiveFrom(1, {GoodHeaders}, PhoneRequests(MaxPhoneLen))
  \/ CreatePreCheck(1)
  \/ CreateInsert(1)

SpecPhone == InitForm /\ [][NextPhone]_vars

\* -------------------------------------------------------------------- login
\* authLimiter's memory store: the window of a key ends at its resetTime, and
\* the first hit at or after it opens a new window of windowMs
WindowOverAlways(o) == TRUE

WindowOver(o) == hits[o] = 0 \/ resetTime[o] <= now

HitsAfterShared(o) ==
  (IF WindowOver(o) THEN 0 ELSE hits["ip1"] + hits["ip2"]) + 1

\* the store's increment: the origin's own count, from 1 in a new window
HitsAfter(o) == (IF WindowOver(o) THEN 0 ELSE hits[o]) + 1

ResetAfter(o) == IF WindowOver(o) THEN now + WindowMs ELSE resetTime[o]

\* max: 5
OverLimitLate(n) == n > RateMax + 1

OverLimit(n) == n > RateMax

\* the validation chains of the login route
LoginInputOk(username, password) ==
  IsLength(Trim(username), 1, Len(username)) /\ Len(password) >= 1

Resp(status, msg, token) == [status |-> status, msg |-> msg, token |-> token]

\* SELECT * FROM admins WHERE username = ?
SelectAdmin(rows, username) == {a \in rows : a.username = username}

LoginHandlerLeaky(rows, username, password, nowMs) ==
  IF ~LoginInputOk(username, password) THEN Resp(400, "Invalid input", NoToken)
  ELSE LET found == SelectAdmin(rows, Trim(username))
       IN  IF found = {} THEN Resp(404, "User not found", NoToken)
           ELSE LET admin == CHOOSE a \in found : TRUE
                IN  IF ~CompareSync(password, admin.password)
                    THEN Resp(401, "Invalid credentials", NoToken)
                    ELSE Resp(200, "Login successful",
                              JwtSign(admin.id, admin.username, JWT_SECRET, nowMs))

\* the handler of POST /api/auth/login, after the limiter
LoginHandler(rows, username, password, nowMs) ==
  IF ~LoginInputOk(username, password) THEN Resp(400, "Invalid input", NoToken)
  ELSE LET found == SelectAdmin(rows, Trim(username))
       IN  IF found = {} \/ ~CompareSync(password, (CHOOSE a \in found : TRUE).password)
           THEN Resp(401, "Invalid credentials", NoToken)
           ELSE LET admin == CHOOSE a \in found : TRUE
                IN  Resp(200, "Login successful",
                         JwtSign(admin.id, admin.username, JWT_SECRET, nowMs))

\* history: which of the two credential failures an attempt is, if any
FailureKind(rows, username, password) ==
  IF ~LoginInputOk(username, password) THEN "none"
  ELSE IF SelectAdmin(rows, Trim(username)) = {} THEN "no_user"
  ELSE IF password # AdminPassword THEN "wrong_password"
  ELSE "none"

\* history: the attempts of an origin that lie less than windowMs before the
\* one made now, the last five of them, and the one made now
Recent(log, entry) ==
  LET near == SelectSeq(log, LAMBDA e : entry.at - e.at < WindowMs)
      kept == IF Len(near) > RateMax
              THEN SubSeq(near, Len(near) - RateMax + 1, Len(near))
              ELSE near
  IN  Append(kept, entry)

\* POST /api/auth/login from origin o
LoginFrom(os, cs, max) ==
  /\ nLogins < max
  /\ \E o \in os, c \in cs :
       LET n == HitsAfter(o)
           r == IF OverLimit(n)
                THEN Resp(429, "Too many authentication attempts, please try again later.",
                          NoToken)
                ELSE LoginHandler(admins, c.username, c.password, now)
           kind == FailureKind(admins, c.username, c.password)
           quiet == attempts[o] = <<>>
                      \/ now - attempts[o][Len(attempts[o])].at >= WindowMs
       IN  /\ hits' = [hits EXCEPT ![o] = n]
           /\ resetTime' = [resetTime EXCEPT ![o] = ResetAfter(o)]
           /\ attempts' = [attempts EXCEPT ![o] =
                 Recent(@, [at |-> now, quiet |-> quiet])]
           /\ admitted' = [admitted EXCEPT ![o] =
                 IF r.status = 429 THEN @ ELSE Recent(@, [at |-> now, quiet |-> quiet])]
           /\ failResp' =
                 IF r.status # 429 /\ kind # "none"
                 THEN [failResp EXCEPT ![kind] = @ \union {<<r.status, r.msg>>}]
                 ELSE failResp
           /\ lastLogin' = [origin |-> o, username |-> c.username,
                            password |-> c.password, at |-> now,
                            status |-> r.status, msg |-> r.msg, token |-> r.token]
           /\ held' = IF r.status = 200 THEN [token |-> r.token, at |-> now] ELSE held
  /\ nLogins' = nLogins + 1
  /\ UNCHANGED <<now, employees, nextId, admins, pool, toast, boot, req, lastVerify>>

\* POST /api/auth/verify with the client's token
VerifyHeld ==
  /\ held # NoHeld
  /\ LET g == authenticateToken(Authorization(<<BEARER, SP, held.token>>), now)
     IN  lastVerify' = [token |-> held.token, issuedAt |-> held.at, at |-> now,
                        status |-> g.status]
  /\ UNCHANGED <<now, employees, nextId, admins, pool, toast, boot, req, hits, resetTime, attempts,
                 admitted, failResp, lastLogin, held, nLogins>>

\* time passes
TickTo(instants) ==
  /\ \E t \in instants : t > now /\ now' = t
  /\ UNCHANGED <<employees, nextId, admins, pool, toast, boot, req, loginVars>>

Credentials(u, p) == [username |-> u, password |-> p]

GoodCredentials == Credentials(AdminName, AdminPassword)

AllCredentials ==
  {Credentials(u, p) :
     u \in {AdminName, <<"g", "h", "o", "s", "t">>, <<" ">>},
     p \in {AdminPassword, <<"x">>, <<>>}}

ExpiresInMs == ExpiresInSec * 1000

\* instants around the end of a token's life
TokenInstants ==
  {900, ExpiresInMs - 1000, ExpiresInMs - 100, ExpiresInMs + 400,
   ExpiresInMs + 900, ExpiresInMs + 1000}

\* instants around the ends of the limiter's windows
LimiterInstants ==
  {WindowMs - 1000, WindowMs, 2 * WindowMs - 1000}

InitLogin ==
  /\ now = 0
  /\ employees = {}
  /\ nextId = 1
  /\ admins = {DefaultAdmin}
  /\ boot = Listening
  /\ pool = IdlePool
  /\ toast = NoToasts
  /\ req = [r \in Slots |-> Idle]
  /\ InitLoginVars

Login == LoginFrom({"ip1"}, AllCredentials, MaxSessions)

TickToken == TickTo(TokenInstants)

NextLogin == Login \/ VerifyHeld \/ TickToken

SpecLogin == InitLogin /\ [][NextLogin]_vars

LoginLimited ==
  LoginFrom(Origins, {GoodCredentials, Credentials(AdminName, <<"x">>)}, MaxLogins)

TickLimiter == TickTo(LimiterInstants)

NextLimiter == LoginLimited \/ TickLimiter

SpecLimiter == InitLogin /\ [][NextLimiter]_vars


\* ------------------------------------------------------------------ startup
NeedsDefaultAdminInverted(rows) == SelectAdmin(rows, AdminName) # {}

\* rows.length === 0 for SELECT * FROM admins WHERE username = 'admin'
NeedsDefaultAdmin(rows) == SelectAdmin(rows, AdminName) = {}

BootTo(pc) == boot' = [boot EXCEPT !.pc = pc]

\* testConnection: the process exits when it returns false
TestConnection ==
  /\ boot.pc = "off"
  /\ \E isConnected \in BOOLEAN :
       BootTo(IF isConnected THEN "connected" ELSE "exited")
  /\ UNCHANGED <<now, employees, nextId, admins, pool, toast, req, loginVars>>

\* initializeDatabase: CREATE ... IF NOT EXISTS leaves existing tables alone
InitializeDatabase ==
  /\ boot.pc = "connected"
  /\ \E isInitialized \in BOOLEAN :
       BootTo(IF isInitialized THEN "initialized" ELSE "exited")
  /\ UNCHANGED <<now, employees, nextId, admins, pool, toast, req, loginVars>>

\* the catch block of the default-admin step: the error is logged and
\* initializeApp returns
CaughtTo(pc) == boot' = [boot EXCEPT !.pc = pc, !.err = TRUE]

\* SELECT * FROM admins WHERE username = 'admin'
SelectDefaultAdmin ==
  /\ boot.pc = "initialized"
  /\ \E failed \in BOOLEAN :
       IF failed THEN CaughtTo("ready")
       ELSE BootTo(IF NeedsDefaultAdmin(admins) THEN "insert" ELSE "ready")
  /\ UNCHANGED <<now, employees, nextId, admins, pool, toast, req, loginVars>>

\* INSERT INTO admins (username, password); username is UNIQUE, and the error
\* of a refused insert is caught and logged
InsertDefaultAdmin ==
  /\ boot.pc = "insert"
  /\ \E failed \in BOOLEAN :
       IF failed \/ SelectAdmin(admins, AdminName) # {}
       THEN admins' = admins /\ CaughtTo("ready")
       ELSE /\ admins' = admins \union {[DefaultAdmin EXCEPT !.id = Cardinality(admins) + 1]}
            /\ BootTo("ready")
  /\ UNCHANGED <<now, employees, nextId, pool, toast, req, loginVars>>

ListenEarly ==
  /\ boot.pc \in {"initialized", "insert", "ready"}
  /\ BootTo("listening")
  /\ UNCHANGED <<now, employees, nextId, admins, pool, toast, req, loginVars>>

\* initializeApp().then(() => app.listen(...))
Listen ==
  /\ boot.pc = "ready"
  /\ BootTo("listening")
  /\ UNCHANGED <<now, employees, nextId, admins, pool, toast, req, loginVars>>

\* the process ends and is started again: the requests it was handling get
\* no answer and the limiter's store is empty; the tables stay
Restart ==
  /\ boot.pc # "off" /\ boot.n < MaxBoots
  /\ boot' = [pc |-> "off", n |-> boot.n + 1, err |-> FALSE]
  /\ req' = [r \in Slots |->
               IF req[r].pc \in {"idle", "done"} THEN req[r]
               ELSE [req[r] EXCEPT !.pc = "dropped"]]
  /\ hits' = [o \in Origins |-> 0]
  /\ resetTime' = [o \in Origins |-> 0]
  /\ UNCHANGED <<now, employees, nextId, admins, pool, toast, attempts, admitted, failResp,
                 lastLogin, held, lastVerify, nLogins>>

\* the first start on a database that has no tables yet
InitBoot ==
  /\ now = ApiNowMs
  /\ employees = {}
  /\ nextId = 1
  /\ admins = {}
  /\ boot = [pc |-> "off", n |-> 1, err |-> FALSE]
  /\ pool = IdlePool
  /\ toast = NoToasts
  /\ req = [r \in Slots |-> Idle]
  /\ InitLoginVars

ReceiveServed(r) == ReceiveFrom(r, {GoodHeaders}, AnyRequests)

LoginOnce == LoginFrom({"ip1"}, {GoodCredentials}, 1)

\* the routes answer once the process listens
Served ==
  /\ boot.pc = "listening"
  /\ \/ LoginOnce
     \/ VerifyHeld
     \/ \E r \in Slots :
          \/ ReceiveServed(r)
          \/ ListSelect(r)
          \/ GetSelect(r)
          \/ CreatePreCheck(r)
          \/ CreateInsert(r)
          \/ UpdateExists(r)
          \/ UpdateDupCheck(r)
          \/ UpdateWrite(r)
          \/ DeleteExists(r)
          \/ DeleteWrite(r)

NextBoot ==
  \/ TestConnection
  \/ InitializeDatabase
  \/ SelectDefaultAdmin
  \/ InsertDefaultAdmin
  \/ Listen
  \/ Restart
  \/ Served

SpecBoot == InitBoot /\ [][NextBoot]_vars

\* --------------------------------------------------------- connection pool
\* pool.execute is getConnection, the query on that connection, then release.
\* pool.op[o] is the place of operation o: "holding" (it has a connection and
\* its query runs), "queued", "failed" (its callback got an error) or "done".

\* connections handed out and not yet released
InUse(p) == p.all - p.free

GetConnectionUnbounded(p) ==
  IF p.free > 0
  THEN [p EXCEPT !.free = @ - 1, !.op = Append(@, "holding")]
  ELSE [p EXCEPT !.all = @ + 1, !.op = Append(@, "holding")]

\* getConnection under dbConfig: a free connection, else a new one below the
\* limit, else the queue (or an error when the pool may not wait or the queue
\* is bounded and full)
GetConnection(p) ==
  IF p.free > 0
  THEN [p EXCEPT !.free = @ - 1, !.op = Append(@, "holding")]
  ELSE IF ConnectionLimit = 0 \/ p.all < ConnectionLimit
  THEN [p EXCEPT !.all = @ + 1, !.op = Append(@, "holding")]
  ELSE IF ~WaitForConnections
  THEN [p EXCEPT !.op = Append(@, "failed")]
  ELSE IF QueueLimit # 0 /\ Len(p.queue) >= QueueLimit
  THEN [p EXCEPT !.op = Append(@, "failed")]
  ELSE [p EXCEPT !.queue = Append(@, Len(p.op) + 1), !.op = Append(@, "queued")]

\* release by operation o: the connection goes to the head of the queue, or
\* back to the free list
ReleaseConnection(p, o) ==
  IF p.queue # <<>>
  THEN [p EXCEPT !.queue = Tail(@),
                 !.op = [@ EXCEPT ![o] = "done", ![Head(p.queue)] = "holding"]]
  ELSE [p EXCEPT !.free = @ + 1, !.op = [@ EXCEPT ![o] = "done"]]

\* a handler issues a storage operation
Execute ==
  /\ Len(pool.op) < MaxOps
  /\ pool' = GetConnection(pool)
  /\ UNCHANGED <<now, employees, nextId, admins, toast, boot, req, loginVars>>

\* the query of operation o ends and its connection is released
Complete(o) ==
  /\ o \in DOMAIN pool.op
  /\ pool.op[o] = "holding"
  /\ pool' = ReleaseConnection(pool, o)
  /\ UNCHANGED <<now, employees, nextId, admins, toast, boot, req, loginVars>>

NextPool ==
  \/ Execute
  \/ \E o \in 1..MaxOps : Complete(o)

SpecPool == InitLogin /\ [][NextPool]_vars

\* ------------------------------------------------------------------- toasts
\* toast.body holds the toast elements appended to document.body, toast.timers
\* the pending setTimeout callbacks, toast.last the arguments of the last call.
ToastMessages == {"Saved", "Failed"}

\* showToast(type, message)
ShowToast(type, message) ==
  /\ toast.toastId < MaxToasts
  /\ LET id == toast.toastId + 1
     IN  toast' =
           IF message \in toast.activeToasts
           THEN [toast EXCEPT !.toastId = id,
                              !.last = [type |-> type, message |-> message]]
           ELSE [toast EXCEPT
                   !.toastId = id,
                   !.last = [type |-> type, message |-> message],
                   !.activeToasts = @ \union {message},
                   !.body = @ \union {[id |-> id, type |-> type, message |-> message]},
                   !.timers = @ \union {[id |-> id, message |-> message,
                                          due |-> now + ToastMs]}]
  /\ UNCHANGED <<now, employees, nextId, admins, pool, boot, req, loginVars>>

\* the user clicks the toast's button: the inline handler removes the element;
\* its second statement names activeToasts, which is a binding of the module
\* and not in the scope of an inline handler, so it throws and deletes nothing
CloseToast(id) ==
  /\ \E e \in toast.body : e.id = id
  /\ toast' = [toast EXCEPT !.body = {e \in @ : e.id # id}]
  /\ UNCHANGED <<now, employees, nextId, admins, pool, boot, req, loginVars>>

\* the callback of setTimeout runs, at or after its time
ToastTimeout(id) ==
  \E t \in toast.timers :
    /\ t.id = id
    /\ now >= t.due
    /\ LET element == {e \in toast.body : e.id = id}
       IN  toast' =
             IF element # {}
             THEN [toast EXCEPT !.timers = @ \ {t},
                                !.body = @ \ element,
                                !.activeToasts = @ \ {t.message}]
             ELSE [toast EXCEPT !.timers = @ \ {t}]
  /\ UNCHANGED <<now, employees, nextId, admins, pool, boot, req, loginVars>>

\* instants before, at and after the ends of the toasts' five seconds
ToastInstants == {(ToastMs \div 2) * k : k \in 1..(2 * MaxToasts)}

NextToast ==
  \/ \E type \in {"success", "error"}, message \in ToastMessages : ShowToast(type, message)
  \/ \E id \in 1..MaxToasts : CloseToast(id)
  \/ \E id \in 1..MaxToasts : ToastTimeout(id)
  \/ TickTo(ToastInstants)

SpecToast == InitLogin /\ [][NextToast]_vars

\* ================================================================== claims
Email(r) == Sanitize(req[r].body)["email"]

\* C1: no two rows of the employees table hold the same email once the emails
\* are lower-cased, whatever creates, updates and deletes have interleaved
C1_UniqueEmail ==
  \A e1, e2 \in employees :
    e1 # e2 => e1.id # e2.id /\ ToLower(e1.email) # ToLower(e2.email)

\* two creates whose emails differ by case only raced past the pre-check; the
\* table took one of them and refused the other
C1_Witness ==
  \E r1, r2 \in Slots :
    /\ req[r1].op = "create" /\ req[r2].op = "create"
    /\ req[r1].pre /\ req[r2].pre
    /\ req[r1].body["email"] = EmailAUpper /\ req[r2].body["email"] = EmailA
    /\ req[r1].status = 201 /\ req[r2].dup
    /\ Cardinality(employees) = 1

Succeeded(r) == req[r].status \in {200, 201}

\* C2: a write that the UNIQUE index refuses is answered 409 and never 500;
\* of two requests that passed the pre-check for the same email, one refused by
\* the index and the other applied, exactly the other is acknowledged
C2_ConflictNotInternal ==
  /\ \A r \in Slots : req[r].dup => req[r].pc = "done" /\ req[r].status = 409
  /\ \A r1, r2 \in Slots :
       ( /\ r1 # r2
         /\ req[r1].pre /\ req[r2].pre
         /\ Email(r1) = Email(r2)
         /\ req[r1].dup /\ req[r2].applied )
       => ~Succeeded(r1) /\ Succeeded(r2)

\* an update and a create raced for the same email and the create lost
C2_Witness ==
  \E r1, r2 \in Slots :
    /\ req[r1].op = "create" /\ req[r2].op = "update"
    /\ req[r1].pre /\ req[r2].pre
    /\ Email(r1) = Email(r2)
    /\ req[r1].dup /\ req[r1].status = 409
    /\ req[r2].applied /\ req[r2].status = 200

\* the header holds some JWT signed with the server's key and not yet expired
HoldsValidToken(h) ==
  /\ "authorization" \in DOMAIN h
  /\ \E i \in 1..Len(h["authorization"]) :
       JwtVerify(<<h["authorization"][i]>>, JWT_SECRET, now)

C3_Rejected ==
  \A r \in Slots :
    (req[r].pc # "idle" /\ ~HoldsValidToken(req[r].hdr))
    => /\ req[r].pc = "done"
       /\ req[r].status \in {401, 403}
       /\ req[r].msg \in {"Access token required", "Invalid or expired token"}
       /\ req[r].ops = 0
       /\ req[r].data = <<>>

C3_NoEffect ==
  \A r \in Slots :
    (req'[r] # req[r] /\ ~HoldsValidToken(req'[r].hdr))
    => employees' = employees /\ nextId' = nextId

\* C3: a request to a protected endpoint whose token is missing or fails
\* verification gets the gate's error; it issues no storage operation and no
\* step of it changes the employees table
C3_GateShortCircuits == []C3_Rejected /\ [][C3_NoEffect]_vars

\* a delete with an expired token and a create with no header were both
\* turned away while the table holds rows
C3_Witness ==
  \E r1, r2 \in Slots :
    /\ req[r1].op = "delete" /\ req[r1].status = 403
    /\ req[r1].hdr = Authorization(<<BEARER, SP, ExpiredToken>>)
    /\ req[r2].op = "create" /\ req[r2].status = 401 /\ req[r2].hdr = NoHeaders
    /\ employees # {}

\* the credentials a header carries, with or without a scheme
CredentialsIn(h) ==
  IF "authorization" \notin DOMAIN h THEN {}
  ELSE {h["authorization"][i] : i \in {j \in 1..Len(h["authorization"]) :
          h["authorization"][j].kind \in {"jwt", "text"}}}

\* C4 as stated: 401 exactly when the request carries no credential, 403
\* whenever a credential is present but invalid, malformed or expired
C4_AsStated ==
  \A r \in Slots :
    req[r].pc # "idle" =>
      /\ req[r].status = 401 <=> CredentialsIn(req[r].hdr) = {}
      /\ (CredentialsIn(req[r].hdr) # {} /\ ~HoldsValidToken(req[r].hdr))
           => req[r].status = 403

\* what stands between the first blank of the header and the next
SecondField(h) ==
  IF "authorization" \notin DOMAIN h THEN <<>>
  ELSE LET a == h["authorization"]
           sps == {i \in 1..Len(a) : a[i] = SP}
       IN  IF sps = {} THEN <<>>
           ELSE LET first == SetMin(sps)
                    later == {i \in sps : i > first}
                    stop == IF later = {} THEN Len(a) + 1 ELSE SetMin(later)
                IN  SubSeq(a, first + 1, stop - 1)

\* C4 amended: 401 exactly when the header is absent or has no non-empty
\* second blank-separated field, 403 exactly when that field is there and is
\* no valid token; neither request is passed on
C4_SecondFieldDecides ==
  \A r \in Slots :
    req[r].pc # "idle" =>
      LET t == SecondField(req[r].hdr)
          valid == Len(t) = 1 /\ HoldsValidToken(Authorization(t))
      IN  /\ req[r].status = 401 <=> t = <<>>
          /\ req[r].status = 403 <=> (t # <<>> /\ ~valid)
          /\ req[r].status \in {401, 403} => req[r].pc = "done" /\ req[r].ops = 0

\* an expired token sent without a scheme got 401, the same token sent as a
\* bearer token got 403
C4_Witness ==
  \E r1, r2 \in Slots :
    /\ req[r1].hdr = Authorization(<<ExpiredToken>>) /\ req[r1].status = 401
    /\ req[r2].hdr = Authorization(<<BEARER, SP, ExpiredToken>>)
    /\ req[r2].status = 403

\* C5 as stated: a token issued at T passes the gate at every time before
\* T + 24h and is refused with 403 at every time after T + 24h
C5_AsStated ==
  lastVerify # NoVerify =>
    /\ lastVerify.at < lastVerify.issuedAt + ExpiresInMs => lastVerify.status = 200
    /\ lastVerify.at > lastVerify.issuedAt + ExpiresInMs => lastVerify.status = 403

\* C5 amended: the token's life is counted in whole seconds from the second it
\* was issued in, so it passes the gate at every time up to T + 24h - 1s and
\* is refused with 403 at every time from T + 24h on
C5_WholeSeconds ==
  lastVerify # NoVerify =>
    /\ lastVerify.at <= lastVerify.issuedAt + ExpiresInMs - 1000
         => lastVerify.status = 200
    /\ lastVerify.at >= lastVerify.issuedAt + ExpiresInMs
         => lastVerify.status = 403

\* a token issued 900 ms into a second was accepted one second before its
\* 24 hours were over
C5_Witness ==
  /\ lastVerify.issuedAt = 900
  /\ lastVerify.at = lastVerify.issuedAt + ExpiresInMs - 1000
  /\ lastVerify.status = 200

\* C6: a login with a known username and a wrong password and a login with an
\* unknown username get the same status and the same message
C6_SameFailure ==
  \A x \in failResp["wrong_password"], y \in failResp["no_user"] : x = y

\* both kinds of failure have been answered
C6_Witness ==
  failResp["wrong_password"] # {} /\ failResp["no_user"] # {}

LastOrigin == lastLogin.origin

InWindow(o) ==
  SelectSeq(admitted[o], LAMBDA e : e.at >= resetTime[o] - WindowMs)

CreatedFields == {"id", "created_at", "updated_at"}

\* C9 as stated: a create with a valid payload whose email is not in use is
\* answered 201 with a record that repeats every field as the caller sent it
\* and has id, created_at and updated_at
C9_AsStated ==
  \A r \in Slots :
    ( /\ req[r].op = "create" /\ req[r].pc = "done"
      /\ employeeValidation(req[r].body) = <<>>
      /\ req[r].pre /\ ~req[r].dup )
    => /\ req[r].status = 201
       /\ \A k \in DOMAIN req[r].body : req[r].data[k] = req[r].body[k]
       /\ CreatedFields \subseteq DOMAIN req[r].data

\* C10 as stated: the id a create returns is the id the table assigned, no
\* other row has it, and reading that id gives the row just created
C10_AsStated ==
  \A r \in Slots :
    (req[r].op = "create" /\ req[r].status = 201)
    => /\ req[r].data["id"] = req[r].newId
       /\ \A e \in SelectById(employees, req[r].data["id"]) :
            e.id = req[r].newId /\ e.email = Email(r)

\* C11: when a stored row holds an email that differs from the payload's only
\* by letter case, the create's duplicate check answers 409 and writes nothing,
\* and a create answered 409 has added no row
C11_CaseConflict ==
  /\ [][\A r \in Slots :
          ( /\ req[r].pc = "precheck" /\ req'[r] # req[r]
            /\ \E e \in employees :
                 ToLower(e.email) = ToLower(req[r].body["email"]) )
          => /\ req'[r].pc = "done" /\ req'[r].status = 409
             /\ employees' = employees /\ nextId' = nextId]_vars
  /\ [](\A r \in Slots :
          (req[r].op = "create" /\ req[r].status = 409)
          => ~req[r].applied /\ req[r].newId = 0)

\* a create of A@X.CO was answered 409 by the duplicate check while a@x.co is
\* stored, and the table has the rows it had
C11_Witness ==
  \E r \in Slots :
    /\ req[r].op = "create" /\ req[r].status = 409
    /\ req[r].body["email"] = EmailAUpper
    /\ ~req[r].pre /\ req[r].ops = 1
    /\ employees = {OldRow(1, EmailA), OldRow(2, EmailC)}

\* C12: when rows A and B are stored and an update of A carries B's email
\* (as normalized), the update's duplicate check answers 409; the step in
\* which an update is answered 409 leaves every row of the table as it was
C12_UpdateConflict ==
  /\ [][\A r \in Slots :
          ( /\ req[r].pc = "dupcheck" /\ req'[r] # req[r]
            /\ \E a, b \in employees :
                 a.id = req[r].id /\ b.id # a.id /\ b.email = Email(r) )
          => /\ req'[r].pc = "done" /\ req'[r].status = 409
             /\ employees' = employees]_vars
  /\ [][\A r \in Slots :
          (req'[r].op = "update" /\ req'[r].status = 409 /\ req[r].status # 409)
          => employees' = employees]_vars

\* an update of row 2 with row 1's email was answered 409 by the duplicate
\* check and both rows are as they were
C12_Witness ==
  \E r \in Slots :
    /\ req[r].op = "update" /\ req[r].status = 409 /\ req[r].id = 2
    /\ Email(r) = EmailA /\ ~req[r].pre /\ ~req[r].dup
    /\ employees = {OldRow(1, EmailA), OldRow(2, EmailC)}

\* request d is a delete that was acknowledged
Deleted(d) == req[d].op = "delete" /\ req[d].status = 200

ById == {"delete", "get", "update"}

\* a delete's existence check that finds no row answers 404
C13_DeleteAbsent ==
  \A r \in Slots :
    ( /\ req[r].op = "delete" /\ req[r].pc = "select" /\ req'[r] # req[r]
      /\ SelectById(employees, req[r].id) = {} )
    => req'[r].pc = "done" /\ req'[r].status = 404

\* once a delete of an id is acknowledged, the existence check of a delete,
\* get or update of that id answers 404
C13_GoneAfterDelete ==
  \A r, d \in Slots :
    ( /\ Deleted(d) /\ req[r].op \in ById /\ req[r].id = req[d].id
      /\ req[r].pc = "select" /\ req'[r] # req[r] )
    => req'[r].pc = "done" /\ req'[r].status = 404

\* a delete, get or update that arrives with a valid token after the delete of
\* its id was acknowledged, and is answered on arrival
AnsweredOnArrival(r, d) ==
  /\ Deleted(d) /\ req[r].pc = "idle" /\ req'[r].pc = "done"
  /\ authenticateToken(req'[r].hdr, now).ok
  /\ req'[r].op \in ById /\ req'[r].id = req[d].id

\* C13 as stated: a delete of an id that holds no record is answered 404, and
\* after an acknowledged delete of an id every later delete, get or update of
\* that id is answered 404
C13_AsStated ==
  /\ [][C13_DeleteAbsent]_vars
  /\ [][C13_GoneAfterDelete]_vars
  /\ [][\A r, d \in Slots : AnsweredOnArrival(r, d) => req'[r].status = 404]_vars

\* C13 amended: the same for every later delete and get and for every later
\* update whose payload passes validation; an update whose payload fails
\* validation is answered 400 before the handler looks for the row
C13_HardDelete ==
  /\ [][C13_DeleteAbsent]_vars
  /\ [][C13_GoneAfterDelete]_vars
  /\ [][\A r, d \in Slots :
          AnsweredOnArrival(r, d)
          => /\ req'[r].op = "update" /\ req'[r].status = 400
             /\ employeeValidation(req'[r].body) # <<>>]_vars

\* row 1 was deleted and a later update of id 1 with a valid payload was
\* answered 404
C13_Witness ==
  \E r, d \in Slots :
    /\ Deleted(d) /\ req[d].id = 1 /\ d < r
    /\ req[r].op = "update" /\ req[r].id = 1 /\ req[r].status = 404
    /\ employeeValidation(req[r].body) = <<>>
    /\ SelectById(employees, 1) = {}

\* the required fields that a payload lacks or carries empty
MissingOrEmpty(b) == {k \in Required : Field(b, k) \in {UNDEF, <<>>}}

Listed(q) == {q.data[i] : i \in 1..Len(q.data)}

\* C14: a create or update whose payload lacks required fields, or has them
\* empty, is answered 400 with every one of those fields in its list
C14_AllListed ==
  \A r \in Slots :
    (req[r].op \in {"create", "update"} /\ MissingOrEmpty(req[r].body) # {})
    => /\ req[r].pc = "done" /\ req[r].status = 400 /\ req[r].ops = 0
       /\ MissingOrEmpty(req[r].body) \subseteq Listed(req[r])

\* an update without email and salary and with an empty first name was
\* answered 400 with all three fields listed
C14_Witness ==
  \E r \in Slots :
    /\ req[r].op = "update" /\ req[r].status = 400
    /\ MissingOrEmpty(req[r].body) = {"first_name", "email", "salary"}
    /\ Field(req[r].body, "first_name") = <<>>
    /\ Listed(req[r]) = {"first_name", "email", "salary"}

\* the optional field is absent, empty or valid
Optional(b, k) == Field(b, k) = UNDEF \/ Field(b, k) = <<>> \/ Field(b, k) = BaseBody[k]

\* C19 as stated: a create or update whose required fields are all valid and
\* whose phone and address are each absent, empty or valid is never answered
\* 400 or 500, and once answered it has been stored
C19_AsStated ==
  \A r \in Slots :
    ( /\ req[r].op \in {"create", "update"}
      /\ \A k \in Required : FieldOk(req[r].body, k)
      /\ Optional(req[r].body, "phone") /\ Optional(req[r].body, "address") )
    => /\ req[r].status \notin {400, 500}
       /\ req[r].pc = "done" => req[r].status \in {200, 201} /\ req[r].applied

PassedGate(q) == q.op # "" /\ authenticateToken(q.hdr, now).ok

\* C15 as stated: an update that arrives for, or looks up, an id that holds no
\* row is answered 404 whatever its payload
C15_AsStated ==
  [][\A r \in Slots :
       ( /\ req[r].pc \in {"idle", "select"} /\ req'[r].pc = "done"
         /\ req'[r].op = "update" /\ PassedGate(req'[r])
         /\ SelectById(employees, req'[r].id) = {} )
       => req'[r].status = 404]_vars

\* C15 amended: validation comes first: an update whose payload fails it is
\* answered 400 whatever its id, without any storage operation; an update
\* whose payload passes it and whose id holds no row is answered 404 by the
\* existence check, and changes nothing
C15_ValidationFirst ==
  /\ [](\A r \in Slots :
          ( /\ req[r].op = "update" /\ PassedGate(req[r])
            /\ employeeValidation(req[r].body) # <<>> )
          => req[r].pc = "done" /\ req[r].status = 400 /\ req[r].ops = 0)
  /\ [][\A r \in Slots :
          ( /\ req[r].op = "update" /\ req[r].pc = "select" /\ req'[r] # req[r]
            /\ SelectById(employees, req[r].id) = {} )
          => /\ req'[r].pc = "done" /\ req'[r].status = 404
             /\ employeeValidation(req[r].body) = <<>>
             /\ employees' = employees]_vars

\* on an empty table an update of id 1 with an invalid payload was answered
\* 400 and one with a valid payload 404
C15_Witness ==
  \E r1, r2 \in Slots :
    /\ employees = {}
    /\ req[r1].op = "update" /\ req[r1].id = 1 /\ req[r1].status = 400
    /\ req[r1].body = InvalidBody
    /\ req[r2].op = "update" /\ req[r2].id = 1 /\ req[r2].status = 404
    /\ req[r2].body = BodyB

\* C16 as stated: after an update is acknowledged with 200, the row it
\* addressed has the time of the update as its updated_at, also when the
\* payload repeats the stored values
C16_AsStated ==
  \A r \in Slots :
    (req[r].op = "update" /\ req[r].status = 200)
    => \A e \in SelectById(employees, req[r].id) : e.updated_at = NowSec

Ids(rows) == {e.id : e \in rows}

\* C17: a row's created_at is the time of its insert and its id the one the
\* table assigned then; no step changes the created_at of a row that stays,
\* and a step of an update, acknowledged or failed, leaves the ids as they are
C17_CreatedOnce ==
  /\ [][\A e \in employees :
          \A f \in SelectById(employees', e.id) : f.created_at = e.created_at]_vars
  /\ [][\A f \in employees' :
          f.id \notin Ids(employees) => f.created_at = NowSec /\ f.id = nextId]_vars
  /\ [][\A r \in Slots :
          (req[r].op = "update" /\ req'[r] # req[r])
          => Ids(employees') = Ids(employees)]_vars

\* row 1 was rewritten by an acknowledged update, another update failed with
\* 409, and both rows have the created_at they had
C17_Witness ==
  \E r1, r2 \in Slots :
    /\ req[r1].op = "update" /\ req[r1].id = 1 /\ req[r1].status = 200
    /\ req[r2].op = "update" /\ req[r2].id = 2 /\ req[r2].status = 409
    /\ \E e1, e2 \in employees :
         /\ e1.id = 1 /\ e1.email = EmailB /\ e1.created_at = 10
         /\ e1.updated_at = NowSec
         /\ e2.id = 2 /\ e2.created_at = 20

\* rows are inserted in the order of their ids
CreatedLater(e, f) == e.id > f.id

\* C18 as stated: the list holds exactly the stored rows, each once, and of
\* any two rows the one created later comes earlier in it
C18_AsStated ==
  [][\A r \in Slots :
       (req[r].op = "list" /\ req[r].pc = "select" /\ req'[r].pc = "done")
       => LET rows == req'[r].data
          IN  /\ req'[r].status = 200
              /\ Len(rows) = Cardinality(employees)
              /\ {rows[i] : i \in 1..Len(rows)} = employees
              /\ \A i, j \in 1..Len(rows) :
                   CreatedLater(rows[i], rows[j]) => i < j]_vars

ByTokenAlone(h) ==
  LET t == SecondField(h)
  IN  IF t = <<>> THEN [status |-> 401, user |-> NoUser]
      ELSE IF Len(t) = 1 /\ t[1].kind = "jwt" /\ t[1].key = JWT_SECRET
                /\ NowSec < t[1].exp
      THEN [status |-> 200, user |-> [id |-> t[1].id, username |-> t[1].username]]
      ELSE [status |-> 403, user |-> NoUser]

\* C21: whether the admins table has the token's administrator or not, the
\* gate's outcome is the one the token alone gives: the same requests are
\* turned away with the same status, the others are passed on, and verify
\* returns the identity of the token
C21_TokenAlone ==
  \A r \in Slots :
    req[r].pc # "idle" =>
      LET g == ByTokenAlone(req[r].hdr)
      IN  /\ g.status # 200 => req[r].status = g.status /\ req[r].ops = 0
          /\ g.status = 200 => req[r].status \notin {401, 403}
          /\ (g.status = 200 /\ req[r].op = "verify")
               => req[r].status = 200 /\ req[r].data = g.user

\* with no administrator left in the table, a verify with the administrator's
\* token returned its identity and a delete with that token was carried out
C21_Witness ==
  /\ admins = {}
  /\ \E r1, r2 \in Slots :
       /\ req[r1].op = "verify" /\ req[r1].hdr = GoodHeaders
       /\ req[r1].status = 200 /\ req[r1].data = [id |-> 1, username |-> AdminName]
       /\ req[r2].op = "delete" /\ req[r2].hdr = GoodHeaders
       /\ req[r2].status = 200

\* C22: at most ConnectionLimit (10) connections exist and are in use at any
\* time; an operation issued while all of them are in use is queued, no
\* operation ever fails for want of a connection, operations wait only while
\* every connection is in use, and each release hands the connection to the
\* operation at the head of the queue.
Holding == {o \in DOMAIN pool.op : pool.op[o] = "holding"}

C22_PoolQueues ==
  /\ [](/\ pool.all <= ConnectionLimit
        /\ InUse(pool) = Cardinality(Holding)
        /\ InUse(pool) <= ConnectionLimit
        /\ \A o \in DOMAIN pool.op : pool.op[o] # "failed"
        /\ pool.queue # <<>> => InUse(pool) = ConnectionLimit)
  /\ [][ /\ (Len(pool'.op) > Len(pool.op) /\ InUse(pool) = ConnectionLimit)
             => pool'.op[Len(pool'.op)] = "queued"
        /\ (Len(pool'.op) = Len(pool.op) /\ pool.queue # <<>>)
             => /\ pool'.op[Head(pool.queue)] = "holding"
                /\ pool'.queue = Tail(pool.queue)
      ]_vars

\* an operation that had to wait was served after a release, and another waits
C22_Witness ==
  /\ InUse(pool) = ConnectionLimit
  /\ Len(pool.op) > ConnectionLimit
  /\ pool.op[ConnectionLimit + 1] = "holding"
  /\ pool.queue # <<>>

\* C23: a create or update answered 400, 404 or 409 has written nothing: the
\* step that answers it leaves the employees table as it was and the request
\* made no write before; the step that answers a create with 201 adds exactly
\* one row, under an id no row had, and leaves every other row as it was.
Answers(r, statuses) ==
  /\ req[r].pc # "done"
  /\ req'[r].pc = "done"
  /\ req'[r].op \in {"create", "update"}
  /\ req'[r].status \in statuses

C23_CheckBeforeMutation ==
  /\ [](\A r \in Slots :
          (req[r].op \in {"create", "update"} /\ req[r].status \in {400, 404, 409})
            => ~req[r].applied)
  /\ [][\A r \in Slots :
          /\ Answers(r, {400, 404, 409}) => employees' = employees
          /\ (Answers(r, {201}) /\ req'[r].op = "create")
               => /\ employees \subseteq employees'
                  /\ Cardinality(employees' \ employees) = 1
                  /\ \A e \in employees' \ employees :
                       e.id \notin {x.id : x \in employees}
        ]_vars

\* next to an older row, a create was stored and an update was refused as a
\* conflict
C23_Witness ==
  /\ Cardinality(employees) >= 2
  /\ \E r1, r2 \in Slots :
       /\ req[r1].op = "create" /\ req[r1].status = 201 /\ req[r1].applied
       /\ req[r2].op = "update" /\ req[r2].status = 409

\* C27 as stated: of the delete requests for one id that held a record, at
\* most one is answered 200, and once all are answered exactly one is.
DeleteAcks(id) ==
  {r \in Slots : req[r].op = "delete" /\ req[r].id = id /\ req[r].status = 200}

C27_AsStated ==
  \A id \in IdParams : Cardinality(DeleteAcks(id)) <= 1

\* C28 as stated: the step that answers an update with 200 finds the row of
\* that id in the table and leaves it holding the payload's values.
C28_AsStated ==
  [][\A r \in Slots :
       (req[r].pc # "done" /\ req'[r].pc = "done" /\ req'[r].op = "update"
          /\ req'[r].status = 200)
         => /\ SelectById(employees, req[r].id) # {}
            /\ \E e \in SelectById(employees', req[r].id) :
                 SameValues(e, Sanitize(req[r].body))
    ]_vars

\* C26: the limiter counts per origin. A login attempt changes the counter
\* and window of its own origin only, and no other step changes any counter;
\* an attempt is refused only as the sixth or later of its own origin's
\* attempts within 15 minutes, and one that is admitted is at most the fifth of
\* its own origin's attempts in that origin's current window, whatever the
\* other origins did.
OwnInWindow(o) ==
  SelectSeq(attempts[o], LAMBDA e : e.at >= resetTime[o] - WindowMs)

C26_PerOrigin ==
  /\ [](lastLogin # NoLogin =>
          /\ lastLogin.status = 429
               => /\ Len(attempts[LastOrigin]) = RateMax + 1
                  /\ lastLogin.at - attempts[LastOrigin][1].at < WindowMs
          /\ lastLogin.status # 429 => Len(OwnInWindow(LastOrigin)) <= RateMax)
  /\ [][ /\ nLogins' = nLogins + 1
             => \A p \in Origins \ {lastLogin'.origin} :
                  hits'[p] = hits[p] /\ resetTime'[p] = resetTime[p]
        /\ nLogins' = nLogins => hits' = hits /\ resetTime' = resetTime
      ]_vars

\* one origin is over its limit, and an attempt of the other origin in the
\* same quarter of an hour was admitted
C26_Witness ==
  /\ hits["ip1"] > RateMax
  /\ now < resetTime["ip1"]
  /\ lastLogin.origin = "ip2"
  /\ lastLogin.at = now
  /\ lastLogin.status = 200
  /\ hits["ip2"] = 1

\* C24 as stated: a create whose other fields are valid passes the server's
\* validation exactly when its phone consists only of digits, spaces, dashes,
\* parentheses and plus signs; so it passes whenever the form accepts the
\* phone.
OnlyPhoneChars(s) ==
  Len(s) >= 1 /\ \A i \in 1..Len(s) : s[i] \in Digits \union {" ", "-", "+", "(", ")"}

C24_AsStated ==
  (req[1].op = "create" /\ req[1].pc # "idle" /\ "phone" \in DOMAIN req[1].body)
    => /\ req[1].status # 400 <=> OnlyPhoneChars(req[1].body["phone"])
       /\ validateFormPhone(req[1].body["phone"]) => req[1].status # 400

\* C25 as stated: an update with a valid payload is answered 200 whenever, at
\* the step that answers it, the record of its id exists and holds the
\* payload's normalized email.
KeepsOwnEmail(r) ==
  /\ req[r].op = "update"
  /\ employeeValidation(req[r].body) = <<>>
  /\ \E e \in SelectById(employees, req[r].id) : e.email = Email(r)

C25_AsStated ==
  [][\A r \in Slots :
       (req[r].pc \notin {"idle", "done"} /\ req'[r].pc = "done" /\ KeepsOwnEmail(r))
         => req'[r].status = 200
    ]_vars

\* the steps of a start come in the order of initializeApp, the process
\* listens only after the last of them, and a process that exited stays so
StartupOrder ==
  /\ boot'.pc = "connected" => boot.pc \in {"off", "connected"}
  /\ boot'.pc = "initialized" => boot.pc \in {"connected", "initialized"}
  /\ boot'.pc = "insert" => boot.pc \in {"initialized", "insert"}
  /\ boot'.pc = "ready" => boot.pc \in {"initialized", "insert", "ready"}
  /\ boot'.pc = "listening" => boot.pc \in {"ready", "listening"}
  /\ boot.pc = "exited" => boot'.pc = "exited" \/ boot'.n = boot.n + 1

\* requests and logins are taken up and carried on only by a listening process
ServedWhenListening ==
  (boot'.n = boot.n /\ (req' # req \/ nLogins' # nLogins \/ lastVerify' # lastVerify))
    => boot.pc = "listening"

HasDefaultAdmin == SelectAdmin(admins, AdminName) # {}

Displayed(t, message) == {e \in t.body : e.message = message}

C30_AsStated ==
  /\ [](\A message \in ToastMessages : Cardinality(Displayed(toast, message)) <= 1)
  /\ [][toast'.toastId = toast.toastId + 1
          => IF Displayed(toast, toast'.last.message) # {}
             THEN toast'.body = toast.body
             ELSE \E e \in toast'.body \ toast.body :
                    e.id = toast'.toastId /\ e.message = toast'.last.message
      ]_vars

====
